---- MODULE Spec2Model ----
(***************************************************************************)
(* Model of scripts/export.py: the conversation log exporter.              *)
(*                                                                         *)
(* A text (a Python str) is a sequence of tokens.  A token is one          *)
(* character ("a", " ", "#", a newline) or one atomic piece of markup that *)
(* the regular expressions of the program look for (a system tag, the      *)
(* skill preamble, the answer phrase).  The regular expressions are        *)
(* modelled by what they match on such sequences.                          *)
(***************************************************************************)
EXTENDS Integers, Sequences, FiniteSets, TLC

\* ---------------------------------------------------------------- bounds
\* Lines of the input file one invocation reads.
MaxLines == 3
\* Longest run of leading '#' on a line drawn for the heading specification.
MaxHashes == 7
\* Lines of the text drawn for the heading specification.
MaxTextLines == 2

\* ------------------------------------------------------ program constants
\* re.match(r'^(#{2,6})\s', line): the shortest and the longest heading run.
MinHeading == 2
MaxHeading == 6
\* slugify: text.strip('-')[:50]
SlugMax == 50

\* ------------------------------------------------------------- characters
NL == "\n"
TAB == "\t"

\* \s of the regular expressions and the characters str.strip() removes.
IsSpace(c) == c \in {" ", NL, TAB}

\* str.lower() / re.IGNORECASE, on the tokens that have an upper-case form.
Lower(c) ==
    CASE c = "A" -> "a"
      [] c = "<LOCAL-COMMAND-CAVEAT>" -> "<local-command-caveat>"
      [] c = "</LOCAL-COMMAND-CAVEAT>" -> "</local-command-caveat>"
      [] OTHER -> c

AllSpace(s) == \A i \in 1..Len(s) : IsSpace(s[i])

RECURSIVE LStrip(_)
LStrip(s) ==
    IF s # <<>> /\ IsSpace(Head(s)) THEN LStrip(Tail(s)) ELSE s

RECURSIVE RStrip(_)
RStrip(s) ==
    IF s # <<>> /\ IsSpace(s[Len(s)]) THEN RStrip(SubSeq(s, 1, Len(s) - 1)) ELSE s

\* str.strip()
Strip(s) == RStrip(LStrip(s))

\* Positions of the token c in s.
Positions(s, c) == {i \in 1..Len(s) : s[i] = c}

Min(S) == CHOOSE x \in S : \A y \in S : x <= y

\* re.sub(r'<tag>.*?</tag>', '', s, flags=re.DOTALL): the leftmost opening tag
\* with the nearest closing tag after it is removed, then the scan goes on after
\* the removed span (the result is not scanned again).
RECURSIVE RemoveSpans(_, _, _)
RemoveSpans(s, open, close) ==
    LET opens == Positions(s, open)
    IN  IF opens = {} THEN s
        ELSE LET i == Min(opens)
                 closes == {j \in Positions(s, close) : j > i}
             IN  IF closes = {} THEN s
                 ELSE LET j == Min(closes)
                      IN  SubSeq(s, 1, i - 1)
                            \o RemoveSpans(SubSeq(s, j + 1, Len(s)), open, close)

\* ---------------------------------------------------------- is_system_noise
\* r'^<tag>.*</tag>\s*$' under re.match with DOTALL | IGNORECASE.
MatchWrapped(s, open, close) ==
    /\ Len(s) >= 2
    /\ Lower(s[1]) = open
    /\ \E j \in 2..Len(s) :
         /\ Lower(s[j]) = close
         /\ AllSpace(SubSeq(s, j + 1, Len(s)))

\* r'^<command-name>.*</command-name>\s*<command-message>.*</command-message>\s*
\*   <command-args>.*</command-args>\s*$'
MatchCommand(s) ==
    /\ Len(s) >= 6
    /\ Lower(s[1]) = "<command-name>"
    /\ \E c1, o2, c2, o3, c3 \in 2..Len(s) :
         /\ c1 < o2 /\ o2 < c2 /\ c2 < o3 /\ o3 < c3
         /\ Lower(s[c1]) = "</command-name>"
         /\ AllSpace(SubSeq(s, c1 + 1, o2 - 1))
         /\ Lower(s[o2]) = "<command-message>"
         /\ Lower(s[c2]) = "</command-message>"
         /\ AllSpace(SubSeq(s, c2 + 1, o3 - 1))
         /\ Lower(s[o3]) = "<command-args>"
         /\ Lower(s[c3]) = "</command-args>"
         /\ AllSpace(SubSeq(s, c3 + 1, Len(s)))

\* noise_patterns, any of them matching the whole message.
MatchesNoisePattern(s) ==
    \/ MatchWrapped(s, "<local-command-caveat>", "</local-command-caveat>")
    \/ MatchCommand(s)
    \/ MatchWrapped(s, "<local-command-stdout>", "</local-command-stdout>")
    \/ AllSpace(s)

\* The loop over system_tags: each tag's spans are removed in turn.
StripSystemTags(s) ==
    LET s1 == RemoveSpans(s, "<local-command-caveat>", "</local-command-caveat>")
        s2 == RemoveSpans(s1, "<command-name>", "</command-name>")
        s3 == RemoveSpans(s2, "<command-message>", "</command-message>")
        s4 == RemoveSpans(s3, "<command-args>", "</command-args>")
        s5 == RemoveSpans(s4, "<local-command-stdout>", "</local-command-stdout>")
    IN  RemoveSpans(s5, "<system-reminder>", "</system-reminder>")

StartsWithPreamble(s) ==
    LET t == Strip(s) IN t # <<>> /\ t[1] = "Base directory for this skill:"

is_system_noise_patterns_only(text) ==
    \/ text = <<>>
    \/ StartsWithPreamble(text)
    \/ MatchesNoisePattern(text)

is_system_noise(text) ==
    \/ text = <<>>
    \/ StartsWithPreamble(text)
    \/ MatchesNoisePattern(text)
    \/ Strip(StripSystemTags(text)) = <<>>

clean_user_content(text) ==
    Strip(RemoveSpans(RemoveSpans(text, "<system-reminder>", "</system-reminder>"),
                      "<local-command-caveat>", "</local-command-caveat>"))

\* ------------------------------------------------------------ Python values
\* None, and a value that is present (str | None, dict.get without default).
None == [some |-> FALSE, val |-> <<>>]
Some(v) == [some |-> TRUE, val |-> v]
\* Python truthiness of a str | None.
Truthy(o) == o.some /\ o.val # <<>>

\* '\n'.join(parts) and '\n\n'.join(parts)
RECURSIVE Join(_, _)
Join(parts, sep) ==
    IF parts = <<>> THEN <<>>
    ELSE IF Len(parts) = 1 THEN parts[1]
    ELSE parts[1] \o sep \o Join(Tail(parts), sep)

\* ------------------------------------------------------------- JSON values
\* An entry of a message's content list.  type "str" is a bare string in the
\* list; every other type is a dict with that 'type'.  hasText: the dict has a
\* 'text' key.  content: a tool_result's 'content' when it is a str.  name: a
\* tool_use's 'name', <<>> when the key is missing.
TextItem(t) ==
    [type |-> "text", hasText |-> TRUE, text |-> t, content |-> None, name |-> <<>>]
BareStr(t) ==
    [type |-> "str", hasText |-> FALSE, text |-> t, content |-> None, name |-> <<>>]
ToolUse(n) ==
    [type |-> "tool_use", hasText |-> FALSE, text |-> <<>>, content |-> None, name |-> n]
Thinking ==
    [type |-> "thinking", hasText |-> FALSE, text |-> <<>>, content |-> None, name |-> <<>>]
ToolResult(c) ==
    [type |-> "tool_result", hasText |-> FALSE, text |-> <<>>, content |-> c, name |-> <<>>]

\* entry['message']: a dict whose 'content' is a str, a list or missing, or a
\* value that is no dict.
StrMsg(t) == [kind |-> "str", text |-> t, items |-> <<>>]
ListMsg(items) == [kind |-> "list", text |-> <<>>, items |-> items]
NoContent == [kind |-> "absent", text |-> <<>>, items |-> <<>>]
NonDictMsg == [kind |-> "nondict", text |-> <<>>, items |-> <<>>]

\* One line of the .jsonl file.  kind "blank": empty after strip(); "badjson":
\* json.loads raises JSONDecodeError; "value": valid JSON that is no object (a
\* number, a string, a list, null); "obj": a JSON object.
Line(kind, type, timestamp, message, slug) ==
    [kind |-> kind, type |-> type, timestamp |-> timestamp, message |-> message,
     slug |-> slug]
Record(type, timestamp, message) == Line("obj", type, timestamp, message, None)

\* ------------------------------------------------------ extract_user_answers
AnswerPhrases == {"User has answered your question:", "User has answered your questions:"}

\* r'\.\s*You can now continue' matching at position e of r.
TailMarkerAt(r, e) ==
    /\ e <= Len(r)
    /\ r[e] = "."
    /\ \E y \in (e + 1)..Len(r) :
         /\ r[y] = "You can now continue"
         /\ AllSpace(SubSeq(r, e + 1, y - 1))

\* re.search(r'User has answered your questions?:\s*(.+?)(?:\.\s*You can now
\* continue|$)', r, re.DOTALL): the match of group 1, or None.
\* The leftmost phrase with anything after it matches; \s* takes all the white
\* space it can but gives the last one back when nothing else is left for (.+?);
\* the lazy group ends before the first trailing marker, or at the end.
SearchAnswer(r) ==
    LET ps == {p \in 1..Len(r) : r[p] \in AnswerPhrases}
    IN  IF ps = {} \/ Min(ps) = Len(r) THEN None
        ELSE LET p == Min(ps)
                 rest == SubSeq(r, p + 1, Len(r))
                 g0 == p + 1 + (Len(rest) - Len(LStrip(rest)))
                 g == IF g0 > Len(r) THEN Len(r) ELSE g0
                 ends == {e \in g..Len(r) : e = Len(r) \/ TailMarkerAt(r, e + 1)}
             IN  Some(SubSeq(r, g, Min(ends)))

RECURSIVE extract_user_answers_items(_)
extract_user_answers_items(items) ==
    IF items = <<>> THEN <<>>
    ELSE LET item == Head(items)
             m == IF item.type = "tool_result" /\ item.content.some
                  THEN SearchAnswer(item.content.val) ELSE None
         IN  (IF m.some THEN <<Strip(m.val)>> ELSE <<>>)
               \o extract_user_answers_items(Tail(items))

extract_user_answers(message) ==
    IF message.kind # "list" THEN <<>>
    ELSE extract_user_answers_items(message.items)

\* ------------------------------------------------------ extract_user_content
\* The texts list built by the loop over a list payload.
RECURSIVE user_texts(_)
user_texts(items) ==
    IF items = <<>> THEN <<>>
    ELSE LET item == Head(items)
             keep == /\ item.type # "tool_result"
                     /\ item.type = "str" \/ item.hasText
                     /\ ~is_system_noise(item.text)
         IN  (IF keep THEN <<clean_user_content(item.text)>> ELSE <<>>)
               \o user_texts(Tail(items))

extract_user_content(message) ==
    CASE message.kind = "str" ->
           IF is_system_noise(message.text) THEN None
           ELSE Some(clean_user_content(message.text))
      [] message.kind = "list" ->
           LET texts == user_texts(message.items)
               combined == IF texts # <<>> THEN Some(Join(texts, <<NL>>)) ELSE None
           IN  IF Truthy(combined) /\ is_system_noise(combined.val) THEN None
               ELSE combined
      [] OTHER -> None

\* ------------------------------------------------- extract_assistant_content
RECURSIVE assistant_texts(_)
assistant_texts(items) ==
    IF items = <<>> THEN <<>>
    ELSE LET item == Head(items)
             text == Strip(item.text)
         IN  (IF item.type = "text" /\ text # <<>> THEN <<text>> ELSE <<>>)
               \o assistant_texts(Tail(items))

RECURSIVE assistant_tools(_)
assistant_tools(items) ==
    IF items = <<>> THEN <<>>
    ELSE LET item == Head(items)
         IN  (IF item.type = "tool_use"
              THEN <<IF item.name = <<>> THEN "Unknown" ELSE item.name[1]>>
              ELSE <<>>)
               \o assistant_tools(Tail(items))

\* The pair (text_content, tools).
extract_assistant_content(message) ==
    IF message.kind # "list" THEN [content |-> None, tools |-> <<>>]
    ELSE LET texts == assistant_texts(message.items)
         IN  [content |-> IF texts # <<>> THEN Some(Join(texts, <<NL, NL>>)) ELSE None,
              tools |-> assistant_tools(message.items)]

\* --------------------------------------------------------- parse_conversation
\* A turn dict.  'answers' is absent until answers are attached; every reader
\* uses turn.get('answers', []), so absent is the empty list.
NewTurn(role, content, tools, timestamp) ==
    [role |-> role, content |-> content, tools |-> tools, answers |-> <<>>,
     timestamp |-> timestamp]

Last(turns) == turns[Len(turns)]

\* if answers and turns and turns[-1]['role'] == 'assistant': ...extend(answers)
AttachAnswersAnyRole(turns, answers) ==
    IF answers # <<>> /\ turns # <<>>
    THEN [turns EXCEPT ![Len(turns)].answers = @ \o answers]
    ELSE turns

AttachAnswers(turns, answers) ==
    IF answers # <<>> /\ turns # <<>> /\ Last(turns).role = "assistant"
    THEN [turns EXCEPT ![Len(turns)].answers = @ \o answers]
    ELSE turns

\* if content and content not in seen_content  (user branch)
UserAcceptsNoDedup(content, seen) == Truthy(content)

UserAccepts(content, seen) == Truthy(content) /\ content.val \notin seen

\* if content and content not in seen_content  (assistant branch)
AssistantAccepts(content, seen) == Truthy(content) /\ content.val \notin seen

\* elif tools and not content
ToolOnlyIgnoringText(content, tools) == tools # <<>>

ToolOnly(content, tools) == tools # <<>> /\ ~Truthy(content)

\* if turns and turns[-1]['role'] == 'assistant': turns[-1]['tools'].extend(tools)
MergeToolsAnyRole(turns, tools) ==
    IF turns # <<>>
    THEN [turns EXCEPT ![Len(turns)].tools = @ \o tools]
    ELSE turns

\* The tools go to the most recent assistant turn, wherever it is.
MergeToolsLatestAssistant(turns, tools) ==
    LET as == {i \in 1..Len(turns) : turns[i].role = "assistant"}
    IN  IF as # {}
        THEN LET i == CHOOSE x \in as : \A y \in as : y <= x
             IN  [turns EXCEPT ![i].tools = @ \o tools]
        ELSE turns

MergeTools(turns, tools) ==
    IF turns # <<>> /\ Last(turns).role = "assistant"
    THEN [turns EXCEPT ![Len(turns)].tools = @ \o tools]
    ELSE turns

\* The loop body for an entry of type 'user'; st = (turns, seen_content).
UserEntry(st, entry) ==
    LET message == entry.message
        answers == extract_user_answers(message)
        attached == AttachAnswers(st.turns, answers)
        content == extract_user_content(message)
    IN  IF UserAccepts(content, st.seen)
        THEN [turns |-> Append(attached,
                               NewTurn("user", content.val, <<>>, entry.timestamp)),
              seen |-> st.seen \cup {content.val}]
        ELSE [turns |-> attached, seen |-> st.seen]

\* The loop body for an entry of type 'assistant'.
AssistantEntry(st, entry) ==
    LET ex == extract_assistant_content(entry.message)
    IN  IF AssistantAccepts(ex.content, st.seen)
        THEN [turns |-> Append(st.turns,
                               NewTurn("assistant", ex.content.val, ex.tools,
                                       entry.timestamp)),
              seen |-> st.seen \cup {ex.content.val}]
        ELSE IF ToolOnly(ex.content, ex.tools)
        THEN [turns |-> MergeTools(st.turns, ex.tools), seen |-> st.seen]
        ELSE st

\* What one line does to the loop: it is skipped, it raises, or it is processed.
\* entry.get on a value that is no dict, and message.get on a message that is
\* no dict, raise AttributeError, which nothing catches.
Raises(line) ==
    \/ line.kind = "value"
    \/ /\ line.kind = "obj"
       /\ line.type \in {"user", "assistant"}
       /\ line.message.kind = "nondict"

LoopBody(st, line) ==
    CASE line.kind = "obj" /\ line.type = "user" -> UserEntry(st, line)
      [] line.kind = "obj" /\ line.type = "assistant" -> AssistantEntry(st, line)
      [] OTHER -> st

EmptyState == [turns |-> <<>>, seen |-> {}]

\* parse_conversation over a whole file that raises nowhere.
RECURSIVE ParseLines(_, _)
ParseLines(st, lines) ==
    IF lines = <<>> THEN st
    ELSE ParseLines(LoopBody(st, Head(lines)), Tail(lines))

\* ------------------------------------------------------------ shift_headings
\* text.split('\n')
RECURSIVE Split(_)
Split(s) ==
    LET ps == Positions(s, NL)
    IN  IF ps = {} THEN <<s>>
        ELSE <<SubSeq(s, 1, Min(ps) - 1)>> \o Split(SubSeq(s, Min(ps) + 1, Len(s)))

\* The number of '#' a line starts with.
RECURSIVE HashRun(_)
HashRun(line) ==
    IF line # <<>> /\ Head(line) = "#" THEN 1 + HashRun(Tail(line)) ELSE 0

\* re.match(r'^(#{2,6})\s', line): the length of group 1, or 0 without a match.
\* The run of '#' has to end in a white-space character, so a longer run than
\* six never matches.
HeadingMatch(line) ==
    LET h == HashRun(line)
    IN  IF /\ MinHeading <= h /\ h <= MaxHeading
           /\ Len(line) > h /\ IsSpace(line[h + 1])
        THEN h ELSE 0

ShiftLineUncapped(line) ==
    IF HeadingMatch(line) > 0 THEN <<"#">> \o line ELSE line

\* The body of the loop over the lines.
ShiftLine(line) ==
    LET h == HeadingMatch(line)
    IN  IF h > 0 /\ h < MaxHeading THEN <<"#">> \o line ELSE line

RECURSIVE MapShift(_)
MapShift(lines) ==
    IF lines = <<>> THEN <<>>
    ELSE <<ShiftLine(Head(lines))>> \o MapShift(Tail(lines))

shift_headings(text) == Join(MapShift(Split(text)), <<NL>>)

\* ----------------------------------------------------------- format_markdown
\* datetime.fromisoformat(ts.replace('Z', '+00:00')).strftime('%Y-%m-%d %H:%M')
\* on the timestamps the model writes: a date, then optionally 'T' or ' ' and
\* hours:minutes, then optionally seconds, then optionally an offset.
IsDateTok(c) == c \in {"2024-05-01", "2024-05-02"}
IsTimeTok(c) == c \in {"09:30", "17:45"}
IsSecTok(c) == c \in {":15"}
ReplaceZ(ts) == [i \in 1..Len(ts) |-> IF ts[i] = "Z" THEN "+00:00" ELSE ts[i]]

\* None when fromisoformat raises ValueError.
FormatTimestamp(ts) ==
    LET t == ReplaceZ(ts)
        n == Len(t)
    IN  IF n = 1 /\ IsDateTok(t[1]) THEN Some(<<t[1], " ", "00:00">>)
        ELSE IF /\ n >= 3 /\ n <= 5
                /\ IsDateTok(t[1]) /\ t[2] \in {"T", " "} /\ IsTimeTok(t[3])
                /\ \/ n = 3
                   \/ n = 4 /\ (IsSecTok(t[4]) \/ t[4] = "+00:00")
                   \/ n = 5 /\ IsSecTok(t[4]) /\ t[5] = "+00:00"
        THEN Some(<<t[1], " ", t[3]>>)
        ELSE None

\* The wall clock: datetime.now() read at one of two instants.
Clocks == {[date |-> "2026-11-01", hm |-> "23:59"], [date |-> "2026-11-02", hm |-> "00:00"]}
NotAfter(c1, c2) == c1 = c2 \/ c1.date = "2026-11-01"

date_str(turns, now) ==
    LET first_timestamp == IF turns # <<>> THEN turns[1].timestamp ELSE None
    IN  IF Truthy(first_timestamp)
        THEN LET dt == FormatTimestamp(first_timestamp.val)
             IN  IF dt.some THEN dt.val ELSE <<"Unknown">>
        ELSE <<now.date, " ", now.hm>>

\* re.findall(r'"([^"]+)"="([^"]+)"', answer): the quoted pairs of an answer.
IsPair(c) == c \in {"\"Q1\"=\"A1\"", "\"Q2\"=\"A2\""}
Question(c) == IF c = "\"Q1\"=\"A1\"" THEN "Q1" ELSE "Q2"
Response(c) == IF c = "\"Q1\"=\"A1\"" THEN "A1" ELSE "A2"

RECURSIVE AnswerLines(_)
AnswerLines(answer) ==
    IF answer = <<>> THEN <<>>
    ELSE (IF IsPair(Head(answer))
          THEN << <<"**", Question(Head(answer)), "**">>, <<>>,
                  <<Response(Head(answer))>>, <<>> >>
          ELSE <<>>)
           \o AnswerLines(Tail(answer))

RECURSIVE AnswersLines(_)
AnswersLines(answers) ==
    IF answers = <<>> THEN <<>>
    ELSE AnswerLines(Head(answers)) \o AnswersLines(Tail(answers))

\* The text body of a turn as it is rendered: only Claude's is heading-shifted.
TurnBody(turn) ==
    IF turn.role = "user" THEN turn.content ELSE shift_headings(turn.content)

\* The lines one turn adds.
TurnLines(turn) ==
    << (IF turn.role = "user" THEN <<"## User">> ELSE <<"## Claude">>),
       <<>>, TurnBody(turn), <<>> >>
      \o [i \in 1..Len(turn.tools) |-> <<"> Used tool: ", turn.tools[i]>>]
      \o (IF turn.tools # <<>> THEN << <<>> >> ELSE <<>>)
      \o AnswersLines(turn.answers)
      \o << <<"---">>, <<>> >>

RECURSIVE AllTurnLines(_)
AllTurnLines(turns) ==
    IF turns = <<>> THEN <<>>
    ELSE TurnLines(Head(turns)) \o AllTurnLines(Tail(turns))

\* now: the clock value datetime.now() returns if it is read.
format_markdown(turns, topic, session_id, now) ==
    Join(<< <<"# Conversation: ">> \o topic, <<>>,
            <<"**Date:** ">> \o date_str(turns, now),
            <<"**Session:** ", session_id>>, <<>>, <<"---">>, <<>> >>
           \o AllTurnLines(turns),
         <<NL>>)

\* ------------------------------------------------------------------- slugify
\* re.sub(pattern+, rep, s) for a character class: every maximal run of
\* characters of the class becomes one rep.
RECURSIVE ReplaceRuns(_, _, _)
ReplaceRuns(s, class, rep) ==
    IF s = <<>> THEN <<>>
    ELSE IF Head(s) \in class
    THEN IF Len(s) > 1 /\ s[2] \in class
         THEN ReplaceRuns(Tail(s), class, rep)
         ELSE <<rep>> \o ReplaceRuns(Tail(s), class, rep)
    ELSE <<Head(s)>> \o ReplaceRuns(Tail(s), class, rep)

RECURSIVE StripDash(_)
StripDash(s) ==
    IF s # <<>> /\ Head(s) = "-" THEN StripDash(Tail(s))
    ELSE IF s # <<>> /\ s[Len(s)] = "-" THEN StripDash(SubSeq(s, 1, Len(s) - 1))
    ELSE s

\* [a-z0-9\s-] on the tokens the model writes ("conversation" is all of [a-z]).
SlugKept == {"a", "b", "0", "1", " ", NL, TAB, "-", "conversation"}

slugify(text) ==
    LET lowered == [i \in 1..Len(text) |-> Lower(text[i])]
        kept == SelectSeq(lowered, LAMBDA c : c \in SlugKept)
        dashed == ReplaceRuns(kept, {" ", NL, TAB, "_"}, "-")
        single == ReplaceRuns(dashed, {"-"}, "-")
        stripped == StripDash(single)
    IN  SubSeq(stripped, 1, IF Len(stripped) < SlugMax THEN Len(stripped) ELSE SlugMax)

\* ---------------------------------------------------------------------- main
\* The file names of the transcripts directory that are taken are named by
\* their collision counter: 0 is '<date>-<slug>.md', k is '<date>-<slug>-<k>.md'.
Filename(date_prefix, topic_slug, counter) ==
    IF counter = 0
    THEN <<date_prefix, "-">> \o topic_slug \o <<".md">>
    ELSE <<date_prefix, "-">> \o topic_slug \o <<"-", ToString(counter), ".md">>

\* The while loop over output_path.exists().
FirstFree(taken) == Min({k \in 0..Cardinality(taken) : k \notin taken})

\* The second pass over the file: the 'slug' of the first entry that has one.
RECURSIVE FirstSlug(_)
FirstSlug(lines) ==
    IF lines = <<>> THEN None
    ELSE IF Head(lines).kind = "obj" /\ Head(lines).slug.some THEN Head(lines).slug
    ELSE FirstSlug(Tail(lines))

\* args.topic, else the slug found in the file, else 'conversation'.
Topic(topic_arg, lines) ==
    IF Truthy(topic_arg) THEN topic_arg.val
    ELSE IF Truthy(FirstSlug(lines)) THEN FirstSlug(lines).val
    ELSE <<"conversation">>

\* ------------------------------------------------------------------- inputs
TsZulu == Some(<<"2024-05-01", "T", "09:30", ":15", "Z">>)
TsNaive == Some(<<"2024-05-02", " ", "17:45">>)
TsBad == Some(<<"yesterday">>)

AnswerOne ==
    <<"User has answered your questions:", " ", "\"Q1\"=\"A1\"", ".", " ",
      "You can now continue", "a">>
AnswerTwo == <<"User has answered your question:", "\"Q2\"=\"A2\"">>

BlankLines == {Line("blank", "", None, NoContent, None)}
BadJsonLines == {Line("badjson", "", None, NoContent, None)}
NonObjectLines == {Line("value", "", None, NoContent, None)}
BadMessageRecords == {Record("user", TsZulu, NonDictMsg)}

OtherRecords ==
    {Line("obj", "summary", None, NoContent, Some(<<"a", "_", "A", " ", "b">>))}

UserRecords ==
    { Record("user", TsZulu, StrMsg(<<"a">>)),
      Record("user", None,
             StrMsg(<<"<system-reminder>", "a", "</system-reminder>", NL>>)),
      Record("user", TsZulu,
             StrMsg(<<"<command-message>", "a", "</command-message>", NL,
                      "<command-name>", "a", "</command-name>">>)),
      Record("user", TsNaive, StrMsg(<<" ", NL>>)),
      Record("user", TsNaive,
             ListMsg(<<TextItem(<<" ">>), ToolResult(Some(AnswerOne))>>)),
      Record("user", None,
             ListMsg(<<ToolResult(Some(<<"a">>)),
                       TextItem(<<"<system-reminder>", "a", "</system-reminder>",
                                  " ", "b">>),
                       ToolResult(Some(AnswerTwo))>>)) }

AssistantRecords ==
    { Record("assistant", None,
             ListMsg(<<TextItem(<<" ", "a", NL>>), ToolUse(<<"Read">>)>>)),
      Record("assistant", TsBad,
             ListMsg(<<Thinking, TextItem(<<"#", "#", " ", "b">>), ToolUse(<<"Bash">>),
                       TextItem(<<"#", "#", "#", "#", "#", "#", " ", "a">>)>>)),
      Record("assistant", TsZulu, ListMsg(<<ToolUse(<<>>), ToolUse(<<"Edit">>)>>)),
      Record("assistant", TsNaive, ListMsg(<<TextItem(<<"b">>)>>)),
      Record("assistant", None, StrMsg(<<"a">>)) }

TopicArgs == {None, Some(<<"A", " ", "-", "b", "!">>)}
SessionId == "0f3a"
\* What the transcripts directory may hold already.
Listings == {{}, {0}}

\* Texts for the heading specification: up to MaxTextLines lines, each a run of
\* '#' and a rest; as the content of a turn they are stripped and not empty.
LineRests == {<<>>, <<" ">>, <<"a">>, <<" ", "a">>, <<TAB, "a">>}
HashLine(h, rest) == [i \in 1..h |-> "#"] \o rest
HeadingLines == {HashLine(h, r) : h \in 0..MaxHashes, r \in LineRests}
RECURSIVE TextsOfLines(_)
TextsOfLines(n) ==
    IF n = 1 THEN HeadingLines
    ELSE LET shorter == TextsOfLines(n - 1)
         IN  shorter \cup {t \o <<NL>> \o l : t \in shorter, l \in HeadingLines}
HeadingTexts == {t \in TextsOfLines(MaxTextLines) : t # <<>> /\ Strip(t) = t}

\* -------------------------------------------------------------------- state
VARIABLES
    pc,            \* where main is
    file,          \* the lines of the .jsonl file read so far
    turns,         \* parse_conversation's turns, then main's
    seen_content,  \* parse_conversation's seen_content
    written,       \* the files written: path and content
    stdout,        \* the lines printed
    stderr,        \* the lines printed to sys.stderr
    exit_code,     \* the exit status once the process has ended
    body_turn,     \* heading specification: the turn being rendered
    body           \* heading specification: its rendered text body

vars == <<pc, file, turns, seen_content, written, stdout, stderr, exit_code,
          body_turn, body>>

NoTurn == NewTurn("", <<>>, <<>>, None)

Init ==
    /\ pc = "start"
    /\ file = <<>>
    /\ turns = <<>>
    /\ seen_content = {}
    /\ written = <<>>
    /\ stdout = <<>>
    /\ stderr = <<>>
    /\ exit_code = 0
    /\ body_turn = NoTurn
    /\ body = <<>>

\* if not jsonl_path.exists(): print(...); sys.exit(1)
FileMissing ==
    /\ pc = "start"
    /\ pc' = "exited"
    /\ stderr' = << <<"Error: Conversation file not found">> >>
    /\ exit_code' = 1
    /\ UNCHANGED <<file, turns, seen_content, written, stdout, body_turn, body>>

\* The file exists: parse_conversation opens it.
OpenFile ==
    /\ pc = "start"
    /\ pc' = "reading"
    /\ UNCHANGED <<file, turns, seen_content, written, stdout, stderr, exit_code,
                   body_turn, body>>

\* One iteration of the loop over the lines, on a line that does not raise.
ReadLine(line) ==
    /\ pc = "reading"
    /\ Len(file) < MaxLines
    /\ ~Raises(line)
    /\ file' = Append(file, line)
    /\ LET st == LoopBody([turns |-> turns, seen |-> seen_content], line)
       IN  /\ turns' = st.turns
           /\ seen_content' = st.seen
    /\ UNCHANGED <<pc, written, stdout, stderr, exit_code, body_turn, body>>

\* One iteration on a line that raises: the exception leaves parse_conversation
\* and main, and the interpreter prints the traceback and exits with status 1.
RaiseOnLine(line) ==
    /\ pc = "reading"
    /\ Len(file) < MaxLines
    /\ Raises(line)
    /\ file' = Append(file, line)
    /\ pc' = "crashed"
    /\ stderr' = << <<"Traceback (most recent call last): AttributeError">> >>
    /\ exit_code' = 1
    /\ UNCHANGED <<turns, seen_content, written, stdout, body_turn, body>>

BlankLine == \E line \in BlankLines : ReadLine(line)
BadJsonLine == \E line \in BadJsonLines : ReadLine(line)
NonObjectLine == \E line \in NonObjectLines : RaiseOnLine(line)
BadMessageRecord == \E line \in BadMessageRecords : RaiseOnLine(line)
UserRecord == \E line \in UserRecords : ReadLine(line)
AssistantRecord == \E line \in AssistantRecords : ReadLine(line)
OtherRecord == \E line \in OtherRecords : ReadLine(line)

\* The loop ends: return turns.
EndOfFile ==
    /\ pc = "reading"
    /\ pc' = "parsed"
    /\ UNCHANGED <<file, turns, seen_content, written, stdout, stderr, exit_code,
                   body_turn, body>>

\* if not turns: print(...); sys.exit(1)
NoTurns ==
    /\ pc = "parsed"
    /\ turns = <<>>
    /\ pc' = "exited"
    /\ stderr' = << <<"Error: No conversation content found">> >>
    /\ exit_code' = 1
    /\ UNCHANGED <<file, turns, seen_content, written, stdout, body_turn, body>>

\* The rest of main: the topic, the document, the free file name, the write and
\* the two lines printed.  now1 is the clock format_markdown reads, now2 the
\* clock of date_prefix.
FormatAndWrite ==
    /\ pc = "parsed"
    /\ turns # <<>>
    /\ \E topic_arg \in TopicArgs, now1 \in Clocks, now2 \in Clocks, taken \in Listings :
         /\ NotAfter(now1, now2)
         /\ LET topic == Topic(topic_arg, file)
                markdown == format_markdown(turns, topic, SessionId, now1)
                output_path == Filename(now2.date, slugify(topic), FirstFree(taken))
            IN  /\ written' = Append(written, [path |-> output_path, text |-> markdown])
                /\ stdout' = << <<"Saved: ">> \o output_path,
                                <<"Turns: ", ToString(Len(turns))>> >>
    /\ pc' = "done"
    /\ UNCHANGED <<file, turns, seen_content, stderr, exit_code, body_turn, body>>

Next ==
    \/ FileMissing
    \/ OpenFile
    \/ BlankLine
    \/ BadJsonLine
    \/ NonObjectLine
    \/ BadMessageRecord
    \/ UserRecord
    \/ AssistantRecord
    \/ OtherRecord
    \/ EndOfFile
    \/ NoTurns
    \/ FormatAndWrite

Spec == Init /\ [][Next]_vars

\* ------------------------------------------------- the heading specification
\* format_markdown's loop body on one turn whose text is drawn from
\* HeadingTexts: the rendering of the text body.
InitBody ==
    /\ pc = "render"
    /\ file = <<>>
    /\ turns = <<>>
    /\ seen_content = {}
    /\ written = <<>>
    /\ stdout = <<>>
    /\ stderr = <<>>
    /\ exit_code = 0
    /\ \E role \in {"user", "assistant"}, text \in HeadingTexts :
         body_turn = NewTurn(role, text, <<>>, None)
    /\ body = <<>>

RenderBody ==
    /\ pc = "render"
    /\ body' = TurnBody(body_turn)
    /\ pc' = "rendered"
    /\ UNCHANGED <<file, turns, seen_content, written, stdout, stderr, exit_code,
                   body_turn>>

NextBody == RenderBody

SpecBody == InitBody /\ [][NextBody]_vars

\* ------------------------------------------------------------------- claims
\* The line read last, the state the loop was in before it, and the text it
\* resolves to.
LastLine == file[Len(file)]
Before == ParseLines(EmptyState, SubSeq(file, 1, Len(file) - 1))
Resolved(line) ==
    IF line.kind = "obj" /\ line.type = "user" /\ line.message.kind # "nondict"
    THEN extract_user_content(line.message)
    ELSE IF line.kind = "obj" /\ line.type = "assistant" /\ line.message.kind # "nondict"
    THEN extract_assistant_content(line.message).content
    ELSE None
TurnTexts(ts) == {ts[i].content : i \in 1..Len(ts)}

\* C1: whatever records have been processed, no two turns of the sequence have
\* the same text, whatever their roles; so a record whose text is that of an
\* accepted turn adds no turn.
C1_NoTwoTurnsSameText ==
    \A i, j \in 1..Len(turns) : i # j => turns[i].content # turns[j].content

\* A record has just been read whose text is that of an earlier turn, and the
\* turns are the ones there were before it.
C1_Witness ==
    /\ pc = "reading" /\ Len(file) >= 2
    /\ Truthy(Resolved(LastLine))
    /\ \E i \in 1..Len(Before.turns) :
         /\ Before.turns[i].content = Resolved(LastLine).val
         /\ Before.turns[i].role # LastLine.type
    /\ turns = Before.turns

\* An assistant record with tool invocations and no text.
IsToolOnlyRecord(line) ==
    /\ line.kind = "obj" /\ line.type = "assistant" /\ line.message.kind = "list"
    /\ assistant_tools(line.message.items) # <<>>
    /\ assistant_texts(line.message.items) = <<>>

\* C2: reading an assistant record with tools and no text appends its tool
\* names, in order, to the tool list of the last turn when that is an assistant
\* turn, and creates no turn; with no turn, or a user turn last, nothing changes.
C2_ToolOnlyRecordMerges ==
    [][(file' # file /\ IsToolOnlyRecord(file'[Len(file')])) =>
         LET tools == assistant_tools(file'[Len(file')].message.items)
         IN  IF turns # <<>> /\ Last(turns).role = "assistant"
             THEN turns' = [turns EXCEPT ![Len(turns)].tools = @ \o tools]
             ELSE turns' = turns]_vars

\* A tool-only record has just been merged into an assistant turn that already
\* had a tool, after an earlier user turn.
C2_Witness ==
    /\ pc = "reading" /\ Len(file) = 3
    /\ IsToolOnlyRecord(LastLine)
    /\ Len(turns) = 2 /\ Len(Before.turns) = 2
    /\ Last(turns).role = "assistant"
    /\ Len(Last(turns).tools) > Len(Last(Before.turns).tools)
    /\ Last(Before.turns).tools # <<>>

\* The tokens of a text, and those of the answer blocks.
TokensOf(s) == {s[k] : k \in 1..Len(s)}
AllAnswerTokens(answers) == UNION {TokensOf(answers[i]) : i \in 1..Len(answers)}

\* C3: reading a user record that carries answer blocks appends them to the
\* answers of the last turn when that is an assistant turn and attaches them to
\* no turn otherwise; the only turn the record can add is the user turn of its
\* own text, which has no answers and none of the answer blocks' text.
C3_AnswersGoToPrecedingAssistant ==
    [][(/\ file' # file
        /\ file'[Len(file')].kind = "obj" /\ file'[Len(file')].type = "user"
        /\ file'[Len(file')].message.kind = "list"
        /\ extract_user_answers(file'[Len(file')].message) # <<>>) =>
         LET answers == extract_user_answers(file'[Len(file')].message)
             n == Len(turns)
         IN  /\ Len(turns') \in {n, n + 1}
             /\ \A i \in 1..n :
                  turns'[i] = IF i = n /\ turns[n].role = "assistant"
                              THEN [turns[n] EXCEPT !.answers = @ \o answers]
                              ELSE turns[i]
             /\ Len(turns') = n + 1 =>
                  /\ turns'[n + 1].role = "user"
                  /\ turns'[n + 1].answers = <<>>
                  /\ TokensOf(turns'[n + 1].content) \cap AllAnswerTokens(answers) = {}]_vars

\* A user record with an answer block and a text of its own has been read after
\* an assistant turn: the assistant turn has the answers, the user turn follows.
C3_Witness ==
    /\ pc = "reading" /\ Len(turns) = 2
    /\ turns[1].role = "assistant" /\ turns[1].answers # <<>>
    /\ turns[2].role = "user" /\ turns[2].answers = <<>>
    /\ extract_user_answers(LastLine.message) # <<>>

\* Nothing but white space is left of the text once the spans of the system
\* tags are removed (an empty and a white-space-only text included).
OnlySystemTags(text) == Strip(StripSystemTags(text)) = <<>>
\* A user record all of whose text is of that kind.
IsNoiseOnlyUserRecord(line) ==
    /\ line.kind = "obj" /\ line.type = "user"
    /\ \/ line.message.kind = "str" /\ OnlySystemTags(line.message.text)
       \/ /\ line.message.kind = "list"
          /\ \E i \in 1..Len(line.message.items) :
               line.message.items[i].type \in {"text", "str"}
          /\ \A i \in 1..Len(line.message.items) :
               line.message.items[i].type \in {"text", "str"}
                 => OnlySystemTags(line.message.items[i].text)

\* C4 as stated: a user record whose text is empty, white space or system tags
\* only produces no turn and leaves the turn sequence and the seen set as they
\* were.
C4_Original_NoiseRecordChangesNothing ==
    [][(file' # file /\ IsNoiseOnlyUserRecord(file'[Len(file')])) =>
         turns' = turns /\ seen_content' = seen_content]_vars

\* C4 as amended: such a record produces no turn and leaves the seen set as it
\* was; the turn sequence is as it was except that the answer blocks the record
\* carries in tool results are appended to the answers of the last turn when
\* that is an assistant turn.
C4_NoiseRecordAddsNoTurn ==
    [][(file' # file /\ IsNoiseOnlyUserRecord(file'[Len(file')])) =>
         LET answers == extract_user_answers(file'[Len(file')].message)
         IN  /\ seen_content' = seen_content
             /\ Len(turns') = Len(turns)
             /\ IF answers # <<>> /\ turns # <<>> /\ Last(turns).role = "assistant"
                THEN turns' = [turns EXCEPT ![Len(turns)].answers = @ \o answers]
                ELSE turns' = turns]_vars

\* A record of system tags only, which none of the whole-message patterns
\* matches, has just been read after a turn, and nothing has changed.
C4_Witness ==
    /\ pc = "reading" /\ Len(file) >= 2
    /\ IsNoiseOnlyUserRecord(LastLine)
    /\ LastLine.message.kind = "str"
    /\ ~MatchesNoisePattern(LastLine.message.text)
    /\ "<command-name>" \in TokensOf(LastLine.message.text)
    /\ turns # <<>> /\ turns = Before.turns

\* A line that is no well-formed record: it fails to parse, or it parses to
\* something that is no record object, or its message is no object.
Malformed(line) == line.kind \in {"badjson", "value"} \/ Raises(line)

\* C5: the reader never aborts on malformed input, and the turns are those of
\* the same input with the malformed lines removed.
C5_MalformedLinesAreSkipped ==
    /\ pc # "crashed"
    /\ pc \in {"reading", "parsed", "done", "exited"} =>
         turns = ParseLines(EmptyState,
                            SelectSeq(file, LAMBDA l : ~Malformed(l))).turns

\* C6: an invocation that has ended has failed with a non-zero status and
\* written nothing if the input file is absent or no turn was extracted (an
\* absent file is never read, so no turn is extracted from it either); in every
\* other case it has written exactly one document and printed its path and the
\* number of turns.
C6_ExitBehaviour ==
    pc \in {"exited", "crashed", "done"} =>
        IF turns = <<>>
        THEN exit_code # 0 /\ written = <<>>
        ELSE /\ exit_code = 0
             /\ Len(written) = 1
             /\ stdout = << <<"Saved: ">> \o written[1].path,
                            <<"Turns: ", ToString(Len(turns))>> >>

\* C8: the document written is the document any invocation over the same
\* records, topic and session identifier renders, whatever the wall clock.
C8_OutputIndependentOfClock ==
    pc = "done" =>
        \A topic_arg \in TopicArgs, now \in Clocks :
            (\E then \in Clocks :
                written[1].text =
                    format_markdown(ParseLines(EmptyState, file).turns,
                                    Topic(topic_arg, file), SessionId, then))
            => written[1].text =
                    format_markdown(ParseLines(EmptyState, file).turns,
                                    Topic(topic_arg, file), SessionId, now)

\* C9: a step changes the turn sequence only by appending one turn or by
\* changing its last turn: every turn but the last is what it was, in place.
C9_OnlyAppendOrMutateLast ==
    [][/\ Len(turns') \in {Len(turns), Len(turns) + 1}
       /\ \A i \in 1..(Len(turns) - 1) : turns'[i] = turns[i]]_vars

\* The last of two turns has just been changed in place.
C9_Witness ==
    /\ pc = "reading" /\ Len(file) = 3
    /\ Len(turns) = 2 /\ Len(Before.turns) = 2
    /\ turns[1] = Before.turns[1]
    /\ turns[2] # Before.turns[2]

\* An assistant record with tool invocations whose text is not empty and is
\* already in the seen set.
IsDuplicateWithTools(line, seen) ==
    /\ line.kind = "obj" /\ line.type = "assistant" /\ line.message.kind = "list"
    /\ assistant_tools(line.message.items) # <<>>
    /\ assistant_texts(line.message.items) # <<>>
    /\ Join(assistant_texts(line.message.items), <<NL, NL>>) \in seen

\* C10: reading an assistant record whose text was accepted before changes
\* nothing, tools or not: no turn is added and no turn's tool list grows.
C10_DuplicateWithToolsChangesNothing ==
    [][(file' # file /\ IsDuplicateWithTools(file'[Len(file')], seen_content)) =>
         turns' = turns /\ seen_content' = seen_content]_vars

\* Such a record has just been read when the last turn is an assistant turn.
C10_Witness ==
    /\ pc = "reading" /\ Len(file) >= 2
    /\ IsDuplicateWithTools(LastLine, Before.seen)
    /\ turns # <<>> /\ Last(turns).role = "assistant"
    /\ turns = Before.turns

\* The level of the heading a line starts with: its run of '#' when that is of
\* one to six and white space follows, else 0.
HeadingLevel(line) ==
    LET n == HashRun(line)
    IN  IF n >= 1 /\ n <= 6 /\ Len(line) > n /\ IsSpace(line[n + 1]) THEN n ELSE 0

\* C7: in the rendered body of an assistant turn every line that starts with a
\* heading of level 2 to 5 has one more '#', every line that starts with a
\* heading of level 6 is as it was, and no line has a longer run of '#' than six
\* unless the text had it; the body of a user turn is its text.
C7_HeadingsShiftedOnceUpToSix ==
    pc = "rendered" =>
        IF body_turn.role = "user" THEN body = body_turn.content
        ELSE LET ins == Split(body_turn.content)
                 outs == Split(body)
             IN  /\ Len(outs) = Len(ins)
                 /\ \A i \in 1..Len(ins) :
                      /\ HeadingLevel(ins[i]) \in 2..5 =>
                           /\ outs[i] = <<"#">> \o ins[i]
                           /\ HeadingLevel(outs[i]) = HeadingLevel(ins[i]) + 1
                      /\ HeadingLevel(ins[i]) = 6 => outs[i] = ins[i]
                      /\ HashRun(outs[i]) > 6 => outs[i] = ins[i]

\* An assistant text with a heading of level 6 and one of a lower level has
\* been rendered.
C7_Witness ==
    /\ pc = "rendered" /\ body_turn.role = "assistant"
    /\ \E i, j \in 1..Len(Split(body_turn.content)) :
         /\ HeadingLevel(Split(body_turn.content)[i]) = 6
         /\ HeadingLevel(Split(body_turn.content)[j]) \in 2..5
         /\ Split(body)[j] # Split(body_turn.content)[j]

====
